---- MODULE Spec2Model ----
(***************************************************************************)
(* Streamlit + SQLite CRUD application (src/app.py).                       *)
(*                                                                         *)
(* The store file data.db holds one table, entries, with an AUTOINCREMENT  *)
(* integer primary key.  The Storage Gateway is the six module functions   *)
(* init_db, insert_entry, view_all, get_entry, update_entry, delete_entry; *)
(* each opens a connection with get_connection and runs one statement in a *)
(* `with conn:` block.  main() is the Streamlit script, re-run from top to *)
(* bottom on every user interaction of a browser session.                  *)
(*                                                                         *)
(* Text values are sequences of characters so that str.strip() is computed *)
(* rather than assumed.                                                    *)
(***************************************************************************)
EXTENDS Integers, Sequences, FiniteSets, TLC

VARIABLES
    db,         \* the store file: [exists, entries, sqlite_sequence]
    openConns,  \* sqlite3.Connection objects opened and not yet closed
    lastOp,     \* the last Storage Gateway call: [by, op, id, row, pre, raised, ret]
    issued,     \* log of the ids insert_entry has returned, oldest first
    pc,         \* per session: position of the run of main()
    event,      \* per session: the widget interaction that triggered the run
    form,       \* per session: main's locals name, email, age, notes (add form)
    selection_map,  \* per session: the ids behind the selectbox labels, as listed
    selected_id,    \* per session: the id picked in the edit selectbox
    msgs,       \* per session: messages rendered by the current run
    uncaught,   \* per session: an exception left main() uncaught
    runs        \* runs of main() started so far, over all sessions

vars ==
    <<db, openConns, lastOp, issued, pc, event, form, selection_map, selected_id, msgs,
      uncaught, runs>>

gatewayVars == <<db, openConns, lastOp, issued>>
uiVars == <<pc, event, form, selection_map, selected_id, msgs, uncaught, runs>>

----------------------------------------------------------------------------
(* Bounds *)

MaxId == 2          \* rowids the bounded store can hand out
MaxOpenConns == 1   \* connection objects that may be alive at once
MaxRuns == 4        \* runs of main() over all sessions

----------------------------------------------------------------------------
(* Values *)

None == <<>>          \* Optional value absent: Python None / SQL NULL
Some(x) == <<x>>      \* Optional value present
NoRet == "none"       \* the call returned nothing (or raised)

Sessions == {"s1", "s2"}

\* Arguments with which the gateway functions are called directly.
GatewayInputs ==
    { [name |-> <<"a">>,      email |-> <<"b">>, age |-> Some(30), notes |-> <<"v">>],
      [name |-> <<" ", "a">>, email |-> <<"b">>, age |-> None,     notes |-> <<>>],
      [name |-> <<>>,         email |-> <<>>,    age |-> Some(0),  notes |-> <<" ">>] }

Ids == 1..(MaxId + 1)

NoInput == [name |-> <<>>, email |-> <<>>, age |-> None, notes |-> <<>>]

\* What a user types into the add form or the update form: the text inputs
\* as typed, and the number_input value (an integer within 0..150).
FormInputs ==
    { [name |-> <<>>,         email |-> <<" ", "b">>, age |-> 30, notes |-> <<"v", " ">>],
      [name |-> <<"a", " ">>, email |-> <<>>,         age |-> 30, notes |-> <<"v", " ">>],
      [name |-> <<" ">>,      email |-> <<"b">>,      age |-> 30, notes |-> <<"v">>],
      [name |-> <<"a", " ">>, email |-> <<" ", "b">>, age |-> 18, notes |-> <<>>] }

NoForm == [name |-> <<>>, email |-> <<>>, age |-> 0, notes |-> <<>>]

\* The interaction that makes Streamlit re-run the script.
Events == {"view", "add", "update", "delete"}

----------------------------------------------------------------------------
(* The entries table *)

\* The row with the name and email parameters bound the wrong way round.
RowArgsSwapped(id, in) ==
    [id |-> id, name |-> in.email, email |-> in.name, age |-> in.age, notes |-> in.notes]

\* The row that VALUES (?, ?, ?, ?) / SET ... binds from (name, email, age, notes).
Row(id, in) ==
    [id |-> id, name |-> in.name, email |-> in.email, age |-> in.age, notes |-> in.notes]

RowIds(entries) == { r.id : r \in entries }

MaxOf(S) == IF S = {} THEN 0 ELSE CHOOSE m \in S : \A x \in S : x <= m

NoDb == [exists |-> FALSE, entries |-> {}, sqlite_sequence |-> 0]

\* INTEGER PRIMARY KEY without AUTOINCREMENT: one more than the largest rowid present.
RowidNoAutoincrement(d) == MaxOf(RowIds(d.entries)) + 1

\* INTEGER PRIMARY KEY AUTOINCREMENT: one more than the largest rowid ever used.
NewRowid(d) ==
    LET present == MaxOf(RowIds(d.entries))
    IN  (IF d.sqlite_sequence > present THEN d.sqlite_sequence ELSE present) + 1

\* A CREATE TABLE that replaces an existing table.
CreateDropsFirst(d) == [exists |-> TRUE, entries |-> {}, sqlite_sequence |-> 0]

\* CREATE TABLE IF NOT EXISTS entries (...)
CreateTableIfNotExists(d) ==
    IF d.exists THEN d ELSE [exists |-> TRUE, entries |-> {}, sqlite_sequence |-> 0]

----------------------------------------------------------------------------
(* Storage Gateway: each function as the statement it executes.  `io` is   *)
(* FALSE when the store fails (file cannot be opened, locked, disk error):  *)
(* the call then raises and the `with conn:` block rolls back.  The result  *)
(* is [db, raised, ret].                                                    *)

Raise(d) == [db |-> d, raised |-> TRUE, ret |-> NoRet]

Return(d, v) == [db |-> d, raised |-> FALSE, ret |-> v]

init_db(d, io) ==
    IF ~io THEN Raise(d) ELSE Return(CreateTableIfNotExists(d), NoRet)

insert_entry(d, in, io) ==
    IF ~io \/ ~d.exists
    THEN Raise(d)
    ELSE LET id == NewRowid(d)
         IN  Return([d EXCEPT !.entries = @ \cup {Row(id, in)},
                              !.sqlite_sequence = id],
                    id)

\* ORDER BY id (ascending)
RECURSIVE OrderByIdAsc(_)
OrderByIdAsc(S) ==
    IF S = {} THEN <<>>
    ELSE LET m == CHOOSE r \in S : \A q \in S : r.id <= q.id
         IN  <<m>> \o OrderByIdAsc(S \ {m})

\* ORDER BY id DESC
RECURSIVE OrderByIdDesc(_)
OrderByIdDesc(S) ==
    IF S = {} THEN <<>>
    ELSE LET m == CHOOSE r \in S : \A q \in S : q.id <= r.id
         IN  <<m>> \o OrderByIdDesc(S \ {m})

view_all(d, io) ==
    IF ~io \/ ~d.exists THEN Raise(d) ELSE Return(d, OrderByIdDesc(d.entries))

\* cur.fetchone(): the first row of the result, or None
FetchOne(S) == IF S = {} THEN None ELSE Some(CHOOSE r \in S : TRUE)

get_entry(d, row_id, io) ==
    IF ~io \/ ~d.exists
    THEN Raise(d)
    ELSE Return(d, FetchOne({ r \in d.entries : r.id = row_id }))

\* cur.rowcount of a statement with WHERE id = ?
RowCount(d, row_id) == Cardinality({ r \in d.entries : r.id = row_id })

\* INSERT OR REPLACE in place of UPDATE: writes the row whether or not it exists.
UpsertSet(entries, row_id, in) ==
    { r \in entries : r.id # row_id } \cup {Row(row_id, in)}

\* UPDATE entries SET name = ?, email = ?, age = ?, notes = ? WHERE id = ?
UpdateSet(entries, row_id, in) ==
    { IF r.id = row_id THEN Row(row_id, in) ELSE r : r \in entries }

update_entry(d, row_id, in, io) ==
    IF ~io \/ ~d.exists
    THEN Raise(d)
    ELSE Return([d EXCEPT !.entries = UpdateSet(@, row_id, in)], RowCount(d, row_id) > 0)

\* DELETE ... WHERE id <= ?
DeleteUpTo(entries, row_id) == { r \in entries : r.id > row_id }

\* DELETE FROM entries WHERE id = ?
DeleteWhere(entries, row_id) == { r \in entries : r.id # row_id }

delete_entry(d, row_id, io) ==
    IF ~io \/ ~d.exists
    THEN Raise(d)
    ELSE Return([d EXCEPT !.entries = DeleteWhere(@, row_id)], RowCount(d, row_id) > 0)

----------------------------------------------------------------------------
(* Connections.  get_connection returns a new open connection.  The        *)
(* `with conn:` block of every gateway function commits or rolls back on    *)
(* exit and does not close the connection; nothing in the module calls      *)
(* conn.close().  The connection object is closed when the interpreter      *)
(* finalizes it: at once under reference counting when nothing else refers  *)
(* to it, later (or at exit) otherwise.  `collected` is that choice.        *)

get_connection(n) == n + 1

WithExit(n) == n

Finalized(n, collected) == IF collected THEN n - 1 ELSE n

ConnsAfterCall(n, collected) == Finalized(WithExit(get_connection(n)), collected)

----------------------------------------------------------------------------
(* Direct callers of the Storage Gateway *)

GatewayCall(by, op, id, in, res, collected) ==
    /\ openConns < MaxOpenConns
    /\ db' = res.db
    /\ openConns' = ConnsAfterCall(openConns, collected)
    /\ lastOp' = [by |-> by, op |-> op, id |-> id, row |-> in, pre |-> db,
                  raised |-> res.raised, ret |-> res.ret]
    /\ issued' = IF op = "insert_entry" /\ ~res.raised THEN Append(issued, res.ret) ELSE issued

Call(op, id, in, res, collected) ==
    /\ GatewayCall("api", op, id, in, res, collected)
    /\ UNCHANGED uiVars

InitDb ==
    \E io \in BOOLEAN, collected \in BOOLEAN :
        Call("init_db", 0, NoInput, init_db(db, io), collected)

InsertEntry ==
    \E in \in GatewayInputs, io \in BOOLEAN, collected \in BOOLEAN :
        /\ NewRowid(db) <= MaxId
        /\ Call("insert_entry", 0, in, insert_entry(db, in, io), collected)

ViewAll ==
    \E io \in BOOLEAN, collected \in BOOLEAN :
        Call("view_all", 0, NoInput, view_all(db, io), collected)

GetEntry ==
    \E id \in Ids, io \in BOOLEAN, collected \in BOOLEAN :
        Call("get_entry", id, NoInput, get_entry(db, id, io), collected)

UpdateEntry ==
    \E id \in Ids, in \in GatewayInputs, io \in BOOLEAN, collected \in BOOLEAN :
        Call("update_entry", id, in, update_entry(db, id, in, io), collected)

DeleteEntry ==
    \E id \in Ids, io \in BOOLEAN, collected \in BOOLEAN :
        Call("delete_entry", id, NoInput, delete_entry(db, id, io), collected)

\* The interpreter finalizes the connection objects nothing refers to any more.
Finalize ==
    /\ openConns > 0
    /\ openConns' = 0
    /\ UNCHANGED <<db, lastOp, issued>>
    /\ UNCHANGED uiVars

NoOp ==
    [by |-> "none", op |-> "none", id |-> 0, row |-> NoInput, pre |-> NoDb, raised |-> FALSE, ret |-> NoRet]

InitGateway ==
    /\ db = NoDb
    /\ openConns = 0
    /\ lastOp = NoOp
    /\ issued = <<>>

InitUi ==
    /\ pc = [s \in Sessions |-> "idle"]
    /\ event = [s \in Sessions |-> "none"]
    /\ form = [s \in Sessions |-> NoForm]
    /\ selection_map = [s \in Sessions |-> <<>>]
    /\ selected_id = [s \in Sessions |-> 0]
    /\ msgs = [s \in Sessions |-> {}]
    /\ uncaught = [s \in Sessions |-> FALSE]
    /\ runs = 0

Init == InitGateway /\ InitUi

Next ==
    \/ InitDb
    \/ InsertEntry
    \/ ViewAll
    \/ GetEntry
    \/ UpdateEntry
    \/ DeleteEntry
    \/ Finalize

Spec == Init /\ [][Next]_vars

----------------------------------------------------------------------------
(* Presentation Layer: main().  A session is one browser tab; Streamlit     *)
(* runs main() from top to bottom for every interaction.  A run is split at *)
(* its gateway calls, each of which is one transaction on the shared store, *)
(* so the calls of two sessions interleave.  main() has no try/except: an   *)
(* exception raised by a gateway call leaves main() and ends the run.       *)

IsSpace(c) == c = " "

RECURSIVE lstrip(_)
lstrip(t) == IF t # <<>> /\ IsSpace(Head(t)) THEN lstrip(Tail(t)) ELSE t

RECURSIVE rstrip(_)
rstrip(t) ==
    IF t # <<>> /\ IsSpace(t[Len(t)]) THEN rstrip(SubSeq(t, 1, Len(t) - 1)) ELSE t

\* str.strip()
strip(t) == rstrip(lstrip(t))

\* `not name or not email`: an empty str is falsy
RequiredMissing(f) == f.name = <<>> \/ f.email = <<>>

\* (name.strip(), email.strip(), int(age), notes.strip())
GatewayArgs(f) ==
    [name |-> strip(f.name), email |-> strip(f.email), age |-> Some(f.age),
     notes |-> strip(f.notes)]

MsgRequired == "Name and Email are required."
MsgAdded == "Entry added with id"
MsgNoRecords == "No records found. Add some via the form above."
MsgUpdated == "Record updated successfully."
MsgUpdateFailed == "Failed to update record. It may have been removed."
MsgNotFound == "Selected record not found."
MsgNoUpdate == "No records to update."
MsgConfirm == "Please check 'Confirm delete' before pressing Delete."
MsgDeleted == "Record deleted successfully"
MsgDeleteFailed == "Failed to delete. It might already be removed."
MsgNoDelete == "No records to delete."

\* The delete section makes a gateway call only when the button was pressed.
DeleteSection(ev) == IF ev = "delete" THEN "delete" ELSE "idle"

\* The update section without the `if record:` test: subscripting None raises
\* TypeError, which leaves main().
GetUnchecked(ev, rec) ==
    IF rec = None
    THEN [pc |-> "idle", msgs |-> {}, uncaught |-> TRUE]
    ELSE [pc |-> IF ev = "update" THEN "update" ELSE DeleteSection(ev),
          msgs |-> {}, uncaught |-> FALSE]

\* `if record: ... else: st.warning(...)`
AfterGet(ev, rec) ==
    IF rec # None
    THEN [pc |-> IF ev = "update" THEN "update" ELSE DeleteSection(ev),
          msgs |-> {}, uncaught |-> FALSE]
    ELSE [pc |-> DeleteSection(ev), msgs |-> {MsgNotFound}, uncaught |-> FALSE]

\* `if ok: st.success(...) else: st.error(...)`
AfterUpdate(ok) == IF ok THEN {MsgUpdated} ELSE {MsgUpdateFailed}

\* `if delete_entry(del_id): st.success(...) else: st.error(...)`
AfterDelete(ok) == IF ok THEN {MsgDeleted} ELSE {MsgDeleteFailed}

\* [r["id"] for r in rows]: the ids that selection_map maps the labels to
ListedIds(l) == [i \in 1..Len(l) |-> l[i].id]

\* main's position and locals after a step.  A local is kept for as long as a
\* later line of main reads it: name, email, age and notes are last read at
\* line 118; of `rows`, lines 142-171 read whether it is empty and the ids in
\* selection_map; `record` is read at lines 147-152 only, within the step that
\* assigns it.  When the run is over (main has returned or an exception has
\* left it) the locals are gone, while the messages it rendered stay on the
\* page until the next run.
Step(s, to, ev, f, ids, sel, shown, exc) ==
    LET over == to = "idle"
    IN  /\ pc' = [pc EXCEPT ![s] = to]
        /\ event' = [event EXCEPT ![s] = IF over THEN "none" ELSE ev]
        /\ form' = [form EXCEPT ![s] = IF over THEN NoForm ELSE f]
        /\ selection_map' = [selection_map EXCEPT ![s] = IF over THEN <<>> ELSE ids]
        /\ selected_id' = [selected_id EXCEPT ![s] = IF over THEN 0 ELSE sel]
        /\ msgs' = [msgs EXCEPT ![s] = shown]
        /\ uncaught' = [uncaught EXCEPT ![s] = exc]

\* An exception leaves main(): the run ends where it is.
Crash(s) == Step(s, "idle", event[s], form[s], selection_map[s], selected_id[s], msgs[s], TRUE)

\* Lines 91-96: a new run starts and calls init_db().
RunMain(s) ==
    /\ pc[s] = "idle"
    /\ runs < MaxRuns
    /\ runs' = runs + 1
    /\ \E ev \in Events, io \in BOOLEAN, collected \in BOOLEAN :
        LET res == init_db(db, io)
        IN  /\ GatewayCall(s, "init_db", 0, NoInput, res, collected)
            /\ IF res.raised
               THEN Step(s, "idle", ev, NoForm, <<>>, 0, {}, TRUE)
               ELSE Step(s, IF ev = "add" THEN "add" ELSE "list", ev, NoForm, <<>>, 0, {}, FALSE)

\* Lines 108-116: the add form was submitted without a name or an email.
AddFormRejected(s) ==
    /\ UNCHANGED runs
    /\ pc[s] = "add"
    /\ \E f \in FormInputs :
        /\ RequiredMissing(f)
        /\ Step(s, "list", event[s], f, <<>>, 0, msgs[s] \cup {MsgRequired}, uncaught[s])
        /\ UNCHANGED gatewayVars

\* Lines 108-119: the add form was submitted and insert_entry is called.
AddFormInsert(s) ==
    /\ UNCHANGED runs
    /\ pc[s] = "add"
    /\ NewRowid(db) <= MaxId
    /\ \E f \in FormInputs, io \in BOOLEAN, collected \in BOOLEAN :
        LET res == insert_entry(db, GatewayArgs(f), io)
        IN  /\ ~RequiredMissing(f)
            /\ GatewayCall(s, "insert_entry", 0, GatewayArgs(f), res, collected)
            /\ IF res.raised
               THEN Crash(s)
               ELSE Step(s, "list", event[s], f, <<>>, 0, msgs[s] \cup {MsgAdded}, uncaught[s])

\* Lines 125-144 and 162-163, 182-183: rows = view_all(); with no rows the
\* update and delete sections only say so; otherwise the edit selectbox holds
\* one of the listed ids.
ListRecords(s) ==
    /\ UNCHANGED runs
    /\ pc[s] = "list"
    /\ \E io \in BOOLEAN, collected \in BOOLEAN :
        LET res == view_all(db, io)
        IN  /\ GatewayCall(s, "view_all", 0, NoInput, res, collected)
            /\ IF res.raised
               THEN Crash(s)
               ELSE IF res.ret = <<>>
               THEN Step(s, "idle", event[s], NoForm, <<>>, 0,
                         msgs[s] \cup {MsgNoRecords, MsgNoUpdate, MsgNoDelete}, uncaught[s])
               ELSE \E i \in 1..Len(res.ret) :
                        Step(s, "get", event[s], NoForm, ListedIds(res.ret), res.ret[i].id,
                             msgs[s], uncaught[s])

\* Lines 146-147, 160-161: record = get_entry(selected_id).
GetRecord(s) ==
    /\ UNCHANGED runs
    /\ pc[s] = "get"
    /\ \E io \in BOOLEAN, collected \in BOOLEAN :
        LET res == get_entry(db, selected_id[s], io)
        IN  /\ GatewayCall(s, "get_entry", selected_id[s], NoInput, res, collected)
            /\ IF res.raised
               THEN Crash(s)
               ELSE LET after == AfterGet(event[s], res.ret)
                    IN  Step(s, after.pc, event[s], NoForm, selection_map[s], selected_id[s],
                             msgs[s] \cup after.msgs, after.uncaught)

\* Lines 148-159: the update form was submitted.
SaveChanges(s) ==
    /\ UNCHANGED runs
    /\ pc[s] = "update"
    /\ \E f \in FormInputs, io \in BOOLEAN, collected \in BOOLEAN :
        LET res == update_entry(db, selected_id[s], GatewayArgs(f), io)
        IN  /\ GatewayCall(s, "update_entry", selected_id[s], GatewayArgs(f), res, collected)
            /\ IF res.raised
               THEN Crash(s)
               ELSE Step(s, DeleteSection(event[s]), event[s], NoForm, selection_map[s],
                         selected_id[s], msgs[s] \cup AfterUpdate(res.ret), uncaught[s])

\* Lines 169-176: Delete Record pressed without the confirmation box checked.
DeleteUnconfirmed(s) ==
    /\ UNCHANGED runs
    /\ pc[s] = "delete"
    /\ Step(s, "idle", event[s], NoForm, selection_map[s], selected_id[s],
            msgs[s] \cup {MsgConfirm}, uncaught[s])
    /\ UNCHANGED gatewayVars

\* Lines 169-181: Delete Record pressed with the box checked; the delete
\* selectbox holds one of the listed ids.
DeleteRecord(s) ==
    /\ UNCHANGED runs
    /\ pc[s] = "delete"
    /\ \E i \in 1..Len(selection_map[s]), io \in BOOLEAN, collected \in BOOLEAN :
        LET del_id == selection_map[s][i]
            res == delete_entry(db, del_id, io)
        IN  /\ GatewayCall(s, "delete_entry", del_id, NoInput, res, collected)
            /\ IF res.raised
               THEN Crash(s)
               ELSE Step(s, "idle", event[s], NoForm, selection_map[s], selected_id[s],
                         msgs[s] \cup AfterDelete(res.ret), uncaught[s])

NextUi ==
    \/ \E s \in Sessions : RunMain(s)
    \/ \E s \in Sessions : AddFormRejected(s)
    \/ \E s \in Sessions : AddFormInsert(s)
    \/ \E s \in Sessions : ListRecords(s)
    \/ \E s \in Sessions : GetRecord(s)
    \/ \E s \in Sessions : SaveChanges(s)
    \/ \E s \in Sessions : DeleteUnconfirmed(s)
    \/ \E s \in Sessions : DeleteRecord(s)
    \/ Finalize

SpecUi == Init /\ [][NextUi]_vars

----------------------------------------------------------------------------
(* Properties of the Storage Gateway, checked under Spec.  lastOp.pre is    *)
(* the store as the last call found it, db the store as it left it.         *)

Returned(op) == lastOp.op = op /\ ~lastOp.raised

\* What a get_entry issued right now returns when the store works.
GetNow(id) == get_entry(db, id, TRUE).ret

Others(entries, id) == { r \in entries : r.id # id }

\* C1: whenever insert_entry returns, the id it returns is the id of the row it
\* just added (an id no row had before, and the only change to the table), and
\* a get_entry of that id issued next returns a row carrying that id and exactly
\* the name, email, age (or None) and notes that were passed in.
C1_CreateThenGet ==
    Returned("insert_entry") =>
        LET id == lastOp.ret
            expected == [id |-> id, name |-> lastOp.row.name, email |-> lastOp.row.email,
                         age |-> lastOp.row.age, notes |-> lastOp.row.notes]
        IN  /\ id \notin RowIds(lastOp.pre.entries)
            /\ db.entries = lastOp.pre.entries \cup {expected}
            /\ GetNow(id) = Some(expected)

C1_Witness ==
    /\ Returned("insert_entry")
    /\ lastOp.ret = 2
    /\ lastOp.row.age = None
    /\ lastOp.row.name = <<" ", "a">>
    /\ lastOp.pre.entries = {}

\* C2: whenever update_entry returns: if the id was in the table it returns
\* TRUE, a get_entry of the id issued next returns the new name, email, age and
\* notes under the same id, and every other row is as before; if the id was not
\* in the table it returns FALSE and the store is exactly as before.
C2_Update ==
    Returned("update_entry") =>
        LET id == lastOp.id
            expected == [id |-> id, name |-> lastOp.row.name, email |-> lastOp.row.email,
                         age |-> lastOp.row.age, notes |-> lastOp.row.notes]
        IN  IF id \in RowIds(lastOp.pre.entries)
            THEN /\ lastOp.ret = TRUE
                 /\ GetNow(id) = Some(expected)
                 /\ db = [lastOp.pre EXCEPT !.entries = Others(@, id) \cup {expected}]
            ELSE /\ lastOp.ret = FALSE
                 /\ db = lastOp.pre

C2_Witness ==
    /\ Returned("update_entry")
    /\ lastOp.ret = TRUE
    /\ Cardinality(db.entries) = 2
    /\ db # lastOp.pre

\* C3: whenever delete_entry returns: if the id was in the table it returns
\* TRUE, exactly that row is gone and nothing else changed, a get_entry of the
\* id issued next returns None, and a second delete_entry of the id returns
\* FALSE and changes nothing; if the id was not in the table (never there, or
\* already deleted) it returns FALSE and the store is exactly as before.
C3_Delete ==
    Returned("delete_entry") =>
        LET id == lastOp.id
            again == delete_entry(db, id, TRUE)
        IN  IF id \in RowIds(lastOp.pre.entries)
            THEN /\ lastOp.ret = TRUE
                 /\ db = [lastOp.pre EXCEPT !.entries = Others(@, id)]
                 /\ Cardinality(db.entries) = Cardinality(lastOp.pre.entries) - 1
                 /\ GetNow(id) = None
                 /\ again.ret = FALSE /\ again.db = db
            ELSE /\ lastOp.ret = FALSE
                 /\ db = lastOp.pre

C3_Witness ==
    /\ Returned("delete_entry")
    /\ lastOp.ret = TRUE
    /\ lastOp.id = 1
    /\ Cardinality(db.entries) = 1

\* C4: whenever view_all returns, its result lists exactly the rows of the
\* table, each once, in strictly descending id order; on an empty table it is
\* the empty sequence.
C4_ViewAll ==
    Returned("view_all") =>
        LET l == lastOp.ret
        IN  /\ { l[i] : i \in 1..Len(l) } = db.entries
            /\ Len(l) = Cardinality(db.entries)
            /\ \A i \in 1..(Len(l) - 1) : l[i].id > l[i + 1].id
            /\ (db.entries = {} => l = <<>>)

C4_Witness ==
    /\ Returned("view_all")
    /\ Len(lastOp.ret) = 2
    /\ lastOp.ret[1].id = 2

\* C5: in every reachable state no two rows share an id; every call leaves the
\* ids of the rows it does not insert or delete as they were; and the ids
\* returned by insert_entry are strictly increasing over the whole history,
\* rows deleted since (the largest one, or all of them) included.
C5_Ids ==
    /\ \A r1 \in db.entries : \A r2 \in db.entries : r1.id = r2.id => r1 = r2
    /\ \A i \in 1..Len(issued) : \A j \in 1..Len(issued) : i < j => issued[i] < issued[j]
    /\ RowIds(db.entries) =
           IF Returned("insert_entry") THEN RowIds(lastOp.pre.entries) \cup {lastOp.ret}
           ELSE IF Returned("delete_entry") THEN RowIds(lastOp.pre.entries) \ {lastOp.id}
           ELSE RowIds(lastOp.pre.entries)

C5_Witness ==
    /\ Returned("insert_entry")
    /\ lastOp.pre.entries = {}
    /\ lastOp.pre.sqlite_sequence = 1
    /\ issued = <<1, 2>>

\* C6: whenever init_db returns the table exists; called on a store whose table
\* already exists it leaves the rows and the AUTOINCREMENT counter exactly as
\* they were, and calling it once more changes nothing.
C6_InitDbIdempotent ==
    Returned("init_db") =>
        /\ db.exists
        /\ (lastOp.pre.exists => db = lastOp.pre)
        /\ init_db(db, TRUE).db = db

C6_Witness ==
    /\ Returned("init_db")
    /\ Cardinality(lastOp.pre.entries) = 1
    /\ lastOp.pre.sqlite_sequence = 2

\* C9: every gateway call has closed the connection it opened by the time it
\* returns, on success and on error: between calls no connection is open.
C9_NoOpenConnection == openConns = 0

----------------------------------------------------------------------------
(* Properties of the Presentation Layer, checked under SpecUi. *)

\* C7: no failure of a gateway call leaves main() as an uncaught exception:
\* in every run each such failure is caught and the run goes on.
C7_NoUncaughtFault == \A s \in Sessions : ~uncaught[s]

\* C8: an add-form submission with an empty name or email is reported as an
\* error and makes no insert_entry call, and every row the add form creates
\* is stored with a non-empty name and a non-empty email.
C8_RequiredFields ==
    \A s \in Sessions :
        /\ (pc[s] = "list" /\ event[s] = "add" /\ RequiredMissing(form[s])) =>
               /\ MsgRequired \in msgs[s]
               /\ MsgAdded \notin msgs[s]
               /\ (lastOp.by = s => lastOp.op # "insert_entry")
        /\ (lastOp.by = s /\ Returned("insert_entry")) =>
               /\ lastOp.row.name # <<>>
               /\ lastOp.row.email # <<>>

\* C10: when a session acts on an id it has listed and another session has
\* deleted in between, its get_entry returns None and its update_entry or
\* delete_entry returns FALSE; the session shows the warning or error message
\* for that outcome, no exception leaves main(), and the store is exactly as
\* the call found it (the row is not recreated, no other row is changed).
C10_RaceHandled ==
    \A s \in Sessions :
        (/\ lastOp.by = s
         /\ ~lastOp.raised
         /\ lastOp.op \in {"get_entry", "update_entry", "delete_entry"}
         /\ lastOp.id \notin RowIds(lastOp.pre.entries)) =>
            /\ ~uncaught[s]
            /\ db = lastOp.pre
            /\ lastOp.op = "get_entry" =>
                   lastOp.ret = None /\ MsgNotFound \in msgs[s]
            /\ lastOp.op = "update_entry" =>
                   lastOp.ret = FALSE /\ MsgUpdateFailed \in msgs[s] /\ MsgUpdated \notin msgs[s]
            /\ lastOp.op = "delete_entry" =>
                   lastOp.ret = FALSE /\ MsgDeleteFailed \in msgs[s] /\ MsgDeleted \notin msgs[s]

C10_Witness ==
    /\ lastOp.by = "s1"
    /\ Returned("update_entry")
    /\ lastOp.ret = FALSE
    /\ MsgUpdateFailed \in msgs["s1"]
    /\ Cardinality(db.entries) = 1
    /\ pc["s2"] = "idle" /\ MsgDeleted \in msgs["s2"]

====
